---------------------------- MODULE Spec2Model ----------------------------
(***************************************************************************)
(* ResourceviewComponent (resourceview.component.ts): a view that          *)
(* registers itself as a listener for command results, submits the         *)
(* commands of its resource with staggered timers, reacts to the           *)
(* lifecycle signals cluster_changed / ns_changed / escape_hit, and merges *)
(* metrics into the resource items of a result before showing them.        *)
(*                                                                         *)
(* TauriAdapter (beService) and the backend dispatcher are not part of the *)
(* sources; their behaviour is taken from the specification (sections 4.3  *)
(* and 4.4) and the definitions that do so say it.                         *)
(***************************************************************************)
EXTENDS Integers, Sequences, FiniteSets, TLC

(***************************************************************************)
(* Bounds of the model.                                                    *)
(***************************************************************************)
\* longest resource.command list
MaxCmds == 2
\* number of context switches (cluster or namespace) in one run
MaxSignals == 1
\* longest items list of a result
MaxItems == 2
\* longest metrics list of a result
MaxMetrics == 2
\* most containers of one item or one metrics entry
MaxContainers == 2

(***************************************************************************)
(* Program constants.                                                      *)
(***************************************************************************)
\* delay += 1000 (milliseconds between two commands of one initialize())
Stagger == 1000

app_command_result == "app_command_result"
app_events == "app_events"
other_channel == "app_other"
cluster_changed == "cluster_changed"
ns_changed == "ns_changed"
escape_hit == "escape_hit"

Names == {"a", "b"}

(***************************************************************************)
(* Payloads.  A JSON-encoded string is modelled by what JSON.parse makes   *)
(* of it: `present' is the truthiness of the string (absent or "" is       *)
(* falsy), `wf' says whether JSON.parse succeeds, `hasItems' whether the   *)
(* parsed object has a truthy `items', and `items' is that list.           *)
(***************************************************************************)
\* containers[i] of an item: `resources' may be missing; usage 0 = no usage
Container(hasRes, u) == [hasResources |-> hasRes, usage |-> u]

\* the containers of an item: none, one without `resources', or up to
\* MaxContainers with `resources' (the code reads and writes containers[0])
ContainerSeqs ==
    { << >>, <<Container(FALSE, 0)>> }
    \cup { [i \in 1..n |-> Container(TRUE, 0)] : n \in 1..MaxContainers }

\* a resource item: metadata.name, spec (possibly missing), spec.containers
\* (missing and empty are both the empty sequence: the code tests
\*  `item.spec.containers && item.spec.containers.length > 0')
Items ==
    { [name |-> n, hasSpec |-> TRUE, containers |-> c] : n \in Names, c \in ContainerSeqs }
    \cup { [name |-> n, hasSpec |-> FALSE, containers |-> << >>] : n \in Names }

ItemLists == UNION { [1..n -> Items] : n \in 0..MaxItems }

\* the containers of a metrics entry: none, one with usage 1, or
\* MaxContainers of them with usage 2 in the first and 3 in the others
MetricContainerSeqs ==
    { << >>, <<[usage |-> 1]>>,
      [i \in 1..MaxContainers |-> [usage |-> IF i = 1 THEN 2 ELSE 3]] }

Metrics == { [name |-> n, containers |-> c] : n \in Names, c \in MetricContainerSeqs }

MetricLists == UNION { [1..n -> Metrics] : n \in 0..MaxMetrics }

\* a JSON-encoded list object ({"items": [...]}) as a string
JsonAbsent == [present |-> FALSE, wf |-> FALSE, hasItems |-> FALSE, items |-> << >>]
JsonMalformed == [present |-> TRUE, wf |-> FALSE, hasItems |-> FALSE, items |-> << >>]
JsonNoItems == [present |-> TRUE, wf |-> TRUE, hasItems |-> FALSE, items |-> << >>]
JsonList(l) == [present |-> TRUE, wf |-> TRUE, hasItems |-> TRUE, items |-> l]

\* payload.data: the outer JSON string and what it parses to
DataMalformed ==
    [wf |-> FALSE, hasItems |-> FALSE, items |-> << >>,
     resource |-> JsonAbsent, metrics |-> JsonAbsent]
DataItems(l) ==
    [wf |-> TRUE, hasItems |-> TRUE, items |-> l,
     resource |-> JsonAbsent, metrics |-> JsonAbsent]
DataSplit(r, m) ==
    [wf |-> TRUE, hasItems |-> FALSE, items |-> << >>, resource |-> r, metrics |-> m]

Event(n, c, d) == [name |-> n, payload |-> [command |-> c, data |-> d]]


(***************************************************************************)
(* handleEvent, as a function of the event (lines 125-172).                *)
(***************************************************************************)
\* Map.prototype.set
mapSet(m, k, v) == [x \in (DOMAIN m) \cup {k} |-> IF x = k THEN v ELSE m[x]]

\* lines 142-144: metrics.items.forEach(m => mmap.set(m.metadata.name, m))
RECURSIVE buildMap(_, _)
buildMap(ms, m) ==
    IF ms = << >> THEN m
    ELSE buildMap(Tail(ms), mapSet(m, Head(ms).name, Head(ms)))

\* mergeItem taking the usage of the metric's last container, not its first
mergeItemLastContainer(item, mmap) ==
    IF ~item.hasSpec
    THEN [threw |-> TRUE, item |-> item]
    ELSE IF /\ Len(item.containers) > 0
            /\ item.name \in DOMAIN mmap
            /\ Len(mmap[item.name].containers) > 0
         THEN IF ~item.containers[1].hasResources
              THEN [threw |-> TRUE, item |-> item]
              ELSE [threw |-> FALSE,
                    item |-> [item EXCEPT !.containers[1].usage =
                        mmap[item.name].containers[Len(mmap[item.name].containers)].usage]]
         ELSE [threw |-> FALSE, item |-> item]

\* mergeItem copying the usage of every container of the metrics entry,
\* not only of its first
mergeItemAllContainers(item, mmap) ==
    IF ~item.hasSpec
    THEN [threw |-> TRUE, item |-> item]
    ELSE IF /\ Len(item.containers) > 0
            /\ item.name \in DOMAIN mmap
            /\ Len(mmap[item.name].containers) > 0
         THEN IF ~item.containers[1].hasResources
              THEN [threw |-> TRUE, item |-> item]
              ELSE [threw |-> FALSE,
                    item |-> [item EXCEPT !.containers =
                        [j \in DOMAIN item.containers |->
                            IF j <= Len(mmap[item.name].containers)
                            THEN [item.containers[j] EXCEPT
                                     !.usage = mmap[item.name].containers[j].usage]
                            ELSE item.containers[j]]]]
         ELSE [threw |-> FALSE, item |-> item]

\* lines 149-154, one pass of the forEach body before `item.flat = ...':
\* `threw' is a TypeError (item.spec undefined, line 149; resources
\* undefined, line 152)
mergeItem(item, mmap) ==
    IF ~item.hasSpec
    THEN [threw |-> TRUE, item |-> item]
    ELSE IF /\ Len(item.containers) > 0
            /\ item.name \in DOMAIN mmap
            /\ Len(mmap[item.name].containers) > 0
         THEN IF ~item.containers[1].hasResources
              THEN [threw |-> TRUE, item |-> item]
              ELSE [threw |-> FALSE,
                    item |-> [item EXCEPT !.containers[1].usage =
                                             mmap[item.name].containers[1].usage]]
         ELSE [threw |-> FALSE, item |-> item]

\* flatten(item): the leaves of the item by path (metadata.name and
\* spec.containers.<i>.resources.usage)
flatten(item) ==
    [name |-> item.name,
     usage |-> [i \in DOMAIN item.containers |-> item.containers[i].usage]]

\* line 155: item.flat = flatten(item)
withFlat(item) ==
    [name |-> item.name, hasSpec |-> item.hasSpec,
     containers |-> item.containers, flat |-> flatten(item)]

\* the item of a row without its derived `flat'
stripFlat(row) ==
    [name |-> row.name, hasSpec |-> row.hasSpec, containers |-> row.containers]

Raised == [threw |-> TRUE, set |-> FALSE, rows |-> << >>]
Ignored == [threw |-> FALSE, set |-> FALSE, rows |-> << >>]

\* handleEvent without the test of the event name at line 136
handleEventAnyName(ev) ==
    LET data == ev.payload.data
        split == ~data.hasItems /\ data.resource.present /\ data.metrics.present
        hasItems == IF split THEN data.resource.hasItems ELSE data.hasItems
        items == IF split THEN data.resource.items ELSE data.items
        mmap == IF split THEN buildMap(data.metrics.items, << >>) ELSE << >>
        merged == [i \in DOMAIN items |-> mergeItem(items[i], mmap)]
    IN  IF ~data.wf THEN Raised
        ELSE IF split /\ ~data.resource.wf THEN Raised
        ELSE IF split /\ ~data.metrics.wf THEN Raised
        ELSE IF split /\ ~data.metrics.hasItems THEN Raised
        ELSE IF ~hasItems THEN Ignored
        ELSE IF \E i \in DOMAIN merged : merged[i].threw THEN Raised
        ELSE [threw |-> FALSE, set |-> TRUE,
              rows |-> [i \in DOMAIN merged |-> withFlat(merged[i].item)]]

\* lines 125-172.  `set' says whether lines 158-163 ran, `rows' is what
\* they assign to rowData, `threw' whether an exception left handleEvent.
\*  - line 131: a JSON.parse failure is caught, results stays undefined;
\*  - line 139: `results.items' on undefined raises a TypeError;
\*  - lines 140-141: JSON.parse of resource / metrics is not guarded;
\*  - line 142: metrics.items.forEach raises when metrics has no items.
handleEvent(ev) ==
    LET data == ev.payload.data
        split == ~data.hasItems /\ data.resource.present /\ data.metrics.present
        hasItems == IF split THEN data.resource.hasItems ELSE data.hasItems
        items == IF split THEN data.resource.items ELSE data.items
        mmap == IF split THEN buildMap(data.metrics.items, << >>) ELSE << >>
        merged == [i \in DOMAIN items |-> mergeItem(items[i], mmap)]
    IN  IF ev.name # app_command_result THEN Ignored
        ELSE IF ~data.wf THEN Raised
        ELSE IF split /\ ~data.resource.wf THEN Raised
        ELSE IF split /\ ~data.metrics.wf THEN Raised
        ELSE IF split /\ ~data.metrics.hasItems THEN Raised
        ELSE IF ~hasItems THEN Ignored
        ELSE IF \E i \in DOMAIN merged : merged[i].threw THEN Raised
        ELSE [threw |-> FALSE, set |-> TRUE,
              rows |-> [i \in DOMAIN merged |-> withFlat(merged[i].item)]]

(***************************************************************************)
(* State.                                                                  *)
(***************************************************************************)
VARIABLES
    lifecycle,        \* "constructed", "initialized" (ngOnInit ran), "destroyed"
    listeners,        \* beService: channel -> registered listeners
    subscription,     \* this.subscription is a live subscription to app_events
    resource,         \* @Input resource: [command |-> list of commands]
    isLoading,
    isSideBarHidden,
    rowData,
    rowDataObs,       \* rowData$ and the grid's rows (both set together)
    selectedapp,      \* [set |-> BOOLEAN, data |-> row]
    timers,           \* pending setTimeout callbacks of initialize()
    batches,          \* number of initialize() calls so far
    now,              \* clock, milliseconds
    ctx,              \* active cluster context: number of switches so far
    submitted,        \* per initialize() call, the commands submitted so far, in order
    inflight,         \* dispatcher: the (command, context) pairs with a result outstanding
    lastEv,           \* the event last passed to handleEvent
    threw,            \* whether that call of handleEvent raised
    closedByEscape    \* an escape_hit closed the sidebar since the last row click

view == <<isLoading, isSideBarHidden, rowData, rowDataObs, selectedapp>>
handled == <<lastEv, threw>>
sched == <<timers, batches, submitted, inflight>>
vars == <<lifecycle, listeners, subscription, resource, isLoading, isSideBarHidden,
          rowData, rowDataObs, selectedapp, timers, batches, now, ctx, submitted,
          inflight, lastEv, threw, closedByEscape>>

MaxBatches == MaxSignals + 1
\* the clock runs until the last timer of a call made at time 0 is due
MaxTime == (MaxCmds - 1) * Stagger

Channels == {app_command_result, app_events, other_channel}
NoRow == [name |-> "a", hasSpec |-> FALSE, containers |-> << >>,
          flat |-> [name |-> "a", usage |-> << >>]]
NoEvent == Event(other_channel, 0, DataMalformed)

(***************************************************************************)
(* TauriAdapter (beService) and the dispatcher behind it.                  *)
(***************************************************************************)
\* beService.registerListener(channel, listener)
registerListener(ls, channel, l) == [ls EXCEPT ![channel] = @ \cup {l}]

\* beService.unRegisterListener(listener)
unRegisterListener(ls, l) == [c \in DOMAIN ls |-> ls[c] \ {l}]

\* beService.executeCommandInCurrentNs(cmd, args, true): the request is
\* bound to the context that is active when it is submitted
executeCommandInCurrentNs(cmd) == [cmd |-> cmd, ctx |-> ctx]

\* contextLive without the check: every result is published
contextLiveUnchecked(r) == TRUE

\* the dispatcher's liveness check just before it publishes a result
contextLive(r) == r.ctx = ctx

(***************************************************************************)
(* The component.                                                          *)
(***************************************************************************)
\* initialize with `delay += 1000' left out: every timer has delay 0
initializeNoStagger(b) ==
    { [batch |-> b, k |-> k, cmd |-> resource.command[k],
       delay |-> 0, due |-> now, ctx |-> ctx]
      : k \in DOMAIN resource.command }

\* lines 104-112: one timer per command, the k-th with delay (k-1) * 1000
\* (`batch' numbers the call, `ctx' is the context active during the call)
initialize(b) ==
    { [batch |-> b, k |-> k, cmd |-> resource.command[k],
       delay |-> (k - 1) * Stagger, due |-> now + (k - 1) * Stagger, ctx |-> ctx]
      : k \in DOMAIN resource.command }

\* lines 114-119
clearTable == rowDataObs' = << >>

\* lines 158-163 after lines 125-157
Deliver(ev) ==
    LET r == handleEvent(ev)
    IN  /\ lastEv' = ev
        /\ threw' = r.threw
        /\ IF r.set
           THEN /\ rowDataObs' = r.rows
                /\ rowData' = r.rows
                /\ isLoading' = FALSE
           ELSE UNCHANGED <<rowDataObs, rowData, isLoading>>
        /\ UNCHANGED <<isSideBarHidden, selectedapp>>

\* the adapter's fan-out of one event to the listeners of its channel
publish(ev) ==
    IF "view" \in listeners[ev.name]
    THEN Deliver(ev)
    ELSE UNCHANGED <<view, handled>>

\* lines 82-102
ngOnInit ==
    /\ lifecycle = "constructed"
    /\ lifecycle' = "initialized"
    /\ timers' = timers \cup initialize(batches + 1)
    /\ batches' = batches + 1
    /\ subscription' = TRUE
    /\ UNCHANGED <<listeners, resource, view, now, ctx, submitted, inflight, handled,
                   closedByEscape>>

\* ngOnDestroy with the unRegisterListener call left out
ngOnDestroyKeepsListener ==
    /\ lifecycle \in {"constructed", "initialized"}
    /\ lifecycle' = "destroyed"
    /\ subscription' = FALSE
    /\ UNCHANGED <<listeners, resource, view, sched, now, ctx, handled, closedByEscape>>

\* lines 77-80
ngOnDestroy ==
    /\ lifecycle \in {"constructed", "initialized"}
    /\ lifecycle' = "destroyed"
    /\ listeners' = unRegisterListener(listeners, "view")
    /\ subscription' = FALSE
    /\ UNCHANGED <<resource, view, sched, now, ctx, handled, closedByEscape>>

\* onClusterChanged with `this.isLoading = true' left out
onClusterChangedNoLoading ==
    /\ clearTable
    /\ UNCHANGED <<isLoading, isSideBarHidden, rowData, selectedapp, sched>>

\* lines 89-91
onClusterChanged ==
    /\ isLoading' = TRUE
    /\ clearTable
    /\ UNCHANGED <<isSideBarHidden, rowData, selectedapp, sched>>

\* lines 92-95
onNsChanged ==
    /\ isLoading' = TRUE
    /\ clearTable
    /\ timers' = timers \cup initialize(batches + 1)
    /\ batches' = batches + 1
    /\ UNCHANGED <<isSideBarHidden, rowData, selectedapp, submitted, inflight>>

\* onEscapeHit toggling the sidebar as a row click does
onEscapeHitToggles ==
    /\ isSideBarHidden' = ~isSideBarHidden
    /\ closedByEscape' = (closedByEscape \/ ~isSideBarHidden)
    /\ UNCHANGED <<isLoading, rowData, rowDataObs, selectedapp, sched>>

\* lines 96-99
onEscapeHit ==
    /\ isSideBarHidden' = (IF ~isSideBarHidden THEN TRUE ELSE isSideBarHidden)
    /\ closedByEscape' = (closedByEscape \/ ~isSideBarHidden)
    /\ UNCHANGED <<isLoading, rowData, rowDataObs, selectedapp, sched>>

\* the active cluster changes and cluster_changed is cast on app_events
ClusterChanged ==
    /\ ctx < MaxSignals
    /\ ctx' = ctx + 1
    /\ IF subscription THEN onClusterChanged ELSE UNCHANGED <<view, sched>>
    /\ UNCHANGED <<lifecycle, listeners, subscription, resource, now, handled,
                   closedByEscape>>

\* the active namespace changes and ns_changed is cast on app_events
NsChanged ==
    /\ ctx < MaxSignals
    /\ ctx' = ctx + 1
    /\ IF subscription THEN onNsChanged ELSE UNCHANGED <<view, sched>>
    /\ UNCHANGED <<lifecycle, listeners, subscription, resource, now, handled,
                   closedByEscape>>

\* escape_hit is cast on app_events
EscapeHit ==
    /\ IF subscription THEN onEscapeHit ELSE UNCHANGED <<view, sched, closedByEscape>>
    /\ UNCHANGED <<lifecycle, listeners, subscription, resource, now, ctx, handled>>

\* lines 174-196: a click on row i of the grid
onSelect(i) ==
    /\ lifecycle = "initialized"
    /\ i \in DOMAIN rowDataObs
    /\ selectedapp' = [set |-> TRUE, data |-> rowDataObs[i]]
    /\ isSideBarHidden' = ~isSideBarHidden
    /\ closedByEscape' = FALSE
    /\ UNCHANGED <<lifecycle, listeners, subscription, resource, isLoading, rowData,
                   rowDataObs, sched, now, ctx, handled>>

\* the clock advances
Tick ==
    /\ now < MaxTime
    /\ now' = now + Stagger
    /\ UNCHANGED <<lifecycle, listeners, subscription, resource, view, sched, ctx, handled,
                   closedByEscape>>

\* setTimeout: u was set before t
setBefore(u, t) == u.batch < t.batch \/ (u.batch = t.batch /\ u.k < t.k)

\* setTimeout: a timer runs once it is due, and after the timers that were
\* set before it with a delay no longer than its own
mayRun(t) ==
    /\ t.due <= now
    /\ ~\E u \in timers : setBefore(u, t) /\ u.delay <= t.delay

\* lines 107-109: the callback of one timer
FireTimer(t) ==
    /\ t \in timers
    /\ mayRun(t)
    /\ timers' = timers \ {t}
    /\ submitted' = [submitted EXCEPT ![t.batch] = Append(@, t.cmd)]
    /\ inflight' = inflight \cup {executeCommandInCurrentNs(t.cmd)}
    /\ UNCHANGED <<lifecycle, listeners, subscription, resource, view, batches, now, ctx,
                   handled, closedByEscape>>

\* the dispatcher publishes the result of command r (a command that fails
\* publishes nothing: it stays in `inflight')
DispatcherPublish(r, d) ==
    /\ r \in inflight
    /\ contextLive(r)
    /\ inflight' = inflight \ {r}
    /\ publish(Event(app_command_result, r.cmd, d))
    /\ UNCHANGED <<lifecycle, listeners, subscription, resource, timers, batches,
                   submitted, now, ctx, closedByEscape>>

\* the dispatcher drops the result of a command of a context that is no
\* longer active
DiscardStale(r) ==
    /\ r \in inflight
    /\ ~contextLive(r)
    /\ inflight' = inflight \ {r}
    /\ UNCHANGED <<lifecycle, listeners, subscription, resource, view, timers, batches,
                   submitted, now, ctx, handled, closedByEscape>>

\* an event that answers no command of this view: the result of another
\* component's command, or an event of another channel
PublishOther(ev) ==
    /\ ev.payload.command = 0
    /\ publish(ev)
    /\ UNCHANGED <<lifecycle, listeners, subscription, resource, sched, now, ctx,
                   closedByEscape>>

(***************************************************************************)
(* The events of a run.                                                    *)
(***************************************************************************)
ItemA == [name |-> "a", hasSpec |-> TRUE, containers |-> <<Container(TRUE, 0)>>]

\* the payloads a result carries in a run of the component
RunData ==
    { DataMalformed,
      DataItems(<<ItemA>>),
      DataSplit(JsonList(<<ItemA>>), JsonAbsent) }

OtherEvents ==
    { Event(app_command_result, 0, d) : d \in RunData }
    \cup { Event(other_channel, 0, DataItems(<<ItemA>>)) }

(***************************************************************************)
(* Spec: the component from construction to teardown.                      *)
(***************************************************************************)
\* lines 32-34, 53-54, 68, 70-75: the state after the constructor, with the
\* resource the parent binds to the @Input
Init ==
    /\ lifecycle = "constructed"
    /\ listeners = registerListener([c \in Channels |-> {}], app_command_result, "view")
    /\ subscription = FALSE
    /\ resource \in { [command |-> [k \in 1..n |-> k]] : n \in 0..MaxCmds }
    /\ isLoading = TRUE
    /\ isSideBarHidden = TRUE
    /\ rowData = << >>
    /\ rowDataObs = << >>
    /\ selectedapp = [set |-> FALSE, data |-> NoRow]
    /\ timers = {}
    /\ batches = 0
    /\ now = 0
    /\ ctx = 0
    /\ submitted = [b \in 1..MaxBatches |-> << >>]
    /\ inflight = {}
    /\ lastEv = NoEvent
    /\ threw = FALSE
    /\ closedByEscape = FALSE

Next ==
    \/ ngOnInit
    \/ ngOnDestroy
    \/ ClusterChanged
    \/ NsChanged
    \/ EscapeHit
    \/ Tick
    \/ \E i \in 1..MaxItems : onSelect(i)
    \/ \E t \in timers : FireTimer(t)
    \/ \E r \in inflight, d \in RunData : DispatcherPublish(r, d)
    \/ \E r \in inflight : DiscardStale(r)
    \/ \E ev \in OtherEvents : PublishOther(ev)

Spec == Init /\ [][Next]_vars

(***************************************************************************)
(* SpecH: handleEvent on every payload of the bounded shapes, called once  *)
(* on the freshly constructed component.                                   *)
(***************************************************************************)
JsonItemLists ==
    { JsonAbsent, JsonMalformed, JsonNoItems } \cup { JsonList(l) : l \in ItemLists }

JsonMetricLists ==
    { JsonAbsent, JsonMalformed, JsonNoItems } \cup { JsonList(l) : l \in MetricLists }

InitH == Init /\ resource.command = << >>

\* the first event the adapter publishes
HandleFirst ==
    /\ lastEv = NoEvent
    /\ \/ PublishOther(Event(app_command_result, 0, DataMalformed))
       \/ \E l \in ItemLists :
             PublishOther(Event(app_command_result, 0, DataItems(l)))
       \/ \E r \in JsonItemLists, m \in JsonMetricLists :
             PublishOther(Event(app_command_result, 0, DataSplit(r, m)))
       \/ \E d \in RunData : PublishOther(Event(other_channel, 0, d))

NextH == HandleFirst

SpecH == InitH /\ [][NextH]_vars

(***************************************************************************)
(* SpecS: a sequence of events handed to the registered view, one call of  *)
(* handleEvent after the other.                                            *)
(***************************************************************************)
ItemB == [name |-> "b", hasSpec |-> TRUE, containers |-> << >>]
ItemNoSpec == [name |-> "b", hasSpec |-> FALSE, containers |-> << >>]
MetricA == [name |-> "a", containers |-> <<[usage |-> 1]>>]

\* the payloads of the sequence
SeqData ==
    { DataMalformed,
      DataItems(<< >>),
      DataItems(<<ItemA>>),
      DataItems(<<ItemB>>),
      DataItems(<<ItemA, ItemB>>),
      DataItems(<<ItemNoSpec>>),
      DataSplit(JsonList(<<ItemA>>), JsonList(<<MetricA>>)),
      DataSplit(JsonList(<<ItemB>>), JsonAbsent) }

\* events of either name, for the commands of this view (1..MaxCmds) and
\* of other components (0)
SeqEvents ==
    { Event(n, c, d) : n \in {app_command_result, other_channel},
                       c \in 0..MaxCmds, d \in SeqData }

\* the adapter calls handleEvent(ev) of the registered view
handleEventCall(ev) ==
    /\ "view" \in listeners[app_command_result]
    /\ Deliver(ev)
    /\ UNCHANGED <<lifecycle, listeners, subscription, resource, sched, now, ctx,
                   closedByEscape>>

InitS == Init /\ resource.command = << >>

NextS == \E ev \in SeqEvents : handleEventCall(ev)

SpecS == InitS /\ [][NextS]_vars

(***************************************************************************)
(* Properties of the component (checked under Spec).                       *)
(***************************************************************************)
registered == "view" \in listeners[app_command_result]

C2_TeardownUnsubscribes ==
    [][lifecycle' = "destroyed" =>
          /\ \A c \in Channels : "view" \notin listeners'[c]
          /\ ~subscription'
          /\ (lifecycle = "destroyed" => UNCHANGED <<view, handled>>)]_vars

\* the view was destroyed, the context has changed, and the results of the
\* commands it had submitted were all published without reaching it
C2_Witness ==
    /\ lifecycle = "destroyed"
    /\ batches = 1
    /\ Len(submitted[1]) > 0
    /\ inflight = {}
    /\ ctx = 0
    /\ lastEv = NoEvent

\* the state of one initialize() call: what it has submitted is a prefix of
\* resource.command, each other command has exactly one pending timer, and
\* the k-th timer (0-based) has delay k * 1000 after the time of the call
batchInOrder(b) ==
    LET n == Len(resource.command)
        done == Len(submitted[b])
        pend == { t \in timers : t.batch = b }
    IN  /\ done <= n
        /\ submitted[b] = SubSeq(resource.command, 1, done)
        /\ { t.k : t \in pend } = (done + 1)..n
        /\ Cardinality(pend) = n - done
        /\ \A t \in pend :
              /\ t.cmd = resource.command[t.k]
              /\ t.delay = (t.k - 1) * 1000
              /\ t.due = t.delay + (CHOOSE u \in pend : u.k = done + 1).due
                                 - (CHOOSE u \in pend : u.k = done + 1).delay

\* C3: within one call of initialize() every command is submitted at most
\* once and in list order, the commands not yet submitted are each
\* scheduled exactly once, the k-th (0-based) k * 1000 ms after the call,
\* and no timer runs before it is due.
C3_StaggeredBatch ==
    /\ \A b \in 1..batches : batchInOrder(b)
    /\ [][/\ \A b \in 1..batches' : batchInOrder(b)'
          /\ \A t \in timers : t \notin timers' => t.due <= now]_vars

\* a call of initialize() with at least two commands has submitted them all
C3_Witness ==
    /\ Len(resource.command) >= 2
    /\ submitted[1] = resource.command
    /\ now >= Stagger

\* C6: every cluster_changed or ns_changed signal the subscribed view
\* receives makes it submit every command of resource.command again: when
\* no timer is pending (only a timer submits a command), the signal
\* schedules one for every command.
C6_SignalsRetrigger ==
    [][(subscription /\ ctx' # ctx /\ timers = {}) =>
          \A k \in DOMAIN resource.command :
              \E t \in timers' : t.k = k /\ t.cmd = resource.command[k]]_vars

\* C8: a timer that was set before a context signal the view received does
\* not run after it: a timer of the subscribed view runs only under the
\* context in which initialize() set it.
C8_SwitchCancelsPending ==
    [][\A t \in timers : (subscription /\ t \notin timers') => t.ctx = ctx]_vars

\* an event that yields an items list: direct items, or resource and
\* metrics strings of which the resource parses to an object with items
yieldsItems(ev) ==
    LET d == ev.payload.data
    IN  /\ ev.name = app_command_result
        /\ d.wf
        /\ \/ d.hasItems
           \/ /\ d.resource.present /\ d.resource.wf /\ d.resource.hasItems
              /\ d.metrics.present

\* C9: isLoading is true initially and after every cluster_changed or
\* ns_changed signal the view receives; it becomes false only in a step
\* that hands the registered view an app_command_result envelope yielding
\* an items list; and a handleEvent call that raises leaves the view as it
\* was (the error is not fatal: the view stays loading).
C9_LoadingFlag ==
    /\ isLoading = TRUE
    /\ [][/\ (subscription /\ ctx' # ctx) => isLoading'
          /\ (isLoading /\ ~isLoading') =>
                /\ registered
                /\ yieldsItems(lastEv')
                /\ ~threw'
                /\ rowData' = handleEvent(lastEv').rows
          /\ (threw' /\ handled' # handled) => UNCHANGED view]_vars

\* the view showed a result and a later context signal put it back in the
\* loading state
C9_Witness ==
    /\ subscription
    /\ isLoading
    /\ rowData # << >>
    /\ ctx > 0

(***************************************************************************)
(* Properties of handleEvent (checked under SpecH, where lastEv is the     *)
(* event handled and rowData, isLoading, threw are its outcome).           *)
(***************************************************************************)
\* a result with resource and metrics strings that both parse to lists
isMergeResult(ev) ==
    LET d == ev.payload.data
    IN  /\ ev.name = app_command_result
        /\ d.wf /\ ~d.hasItems
        /\ d.resource.present /\ d.resource.wf /\ d.resource.hasItems
        /\ d.metrics.present /\ d.metrics.wf /\ d.metrics.hasItems

\* a metrics list keyed by resource name: no name occurs twice
keyedByName(ms) == \A i, j \in DOMAIN ms : ms[i].name = ms[j].name => i = j

\* the metrics entries with the item's name and at least one container
matching(item, ms) ==
    { j \in DOMAIN ms : ms[j].name = item.name /\ Len(ms[j].containers) >= 1 }

\* the first container of the row carries a usage
hasUsage(row) == Len(row.containers) >= 1 /\ row.containers[1].usage # 0

raises(items, ms) ==
    \E i \in DOMAIN items :
        \/ ~items[i].hasSpec
        \/ /\ Len(items[i].containers) >= 1
           /\ matching(items[i], ms) # {}
           /\ ~items[i].containers[1].hasResources

C5_PartialFailure ==
    LET d == lastEv.payload.data
    IN  (/\ lastEv.name = app_command_result
         /\ d.wf /\ ~d.hasItems
         /\ d.resource.present /\ d.resource.wf /\ d.resource.hasItems
         /\ Len(d.resource.items) >= 1
         /\ \A i \in DOMAIN d.resource.items :
               d.resource.items[i].hasSpec
         /\ ~d.metrics.present) =>
            /\ ~threw
            /\ ~isLoading
            /\ Len(rowData) = Len(d.resource.items)
            /\ \A i \in DOMAIN rowData : stripFlat(rowData[i]) = d.resource.items[i]

\* an envelope whose data, resource or metrics string is malformed JSON
\* (resource and metrics are parsed when there are no direct items and
\*  both strings are present)
malformed(ev) ==
    LET d == ev.payload.data
    IN  /\ ev.name = app_command_result
        /\ \/ ~d.wf
           \/ /\ d.wf /\ ~d.hasItems /\ d.resource.present /\ d.metrics.present
              /\ (~d.resource.wf \/ ~d.metrics.wf)

\* C7: a malformed envelope is skipped: handleEvent returns without
\* raising and leaves rowData and isLoading as they were.
C7_MalformedSkipped ==
    malformed(lastEv) => (~threw /\ rowData = << >> /\ isLoading)

\* an item that cannot be merged
unmergeable(item) ==
    \/ ~item.hasSpec
    \/ item.containers = << >>
    \/ ~item.containers[1].hasResources

\* the items list of a result that has one
resultItems(ev) ==
    IF ev.payload.data.hasItems
    THEN ev.payload.data.items
    ELSE ev.payload.data.resource.items

\* C10: a result whose n items include one that cannot be merged still
\* yields rowData of length n, the unmergeable items unmodified.
C10_ItemsIndependent ==
    LET items == resultItems(lastEv)
    IN  (/\ lastEv.name = app_command_result
         /\ lastEv.payload.data.wf
         /\ lastEv.payload.data.hasItems \/ isMergeResult(lastEv)
         /\ \E i \in DOMAIN items : unmergeable(items[i])) =>
            /\ ~threw
            /\ Len(rowData) = Len(items)
            /\ \A i \in DOMAIN items :
                  unmergeable(items[i]) => stripFlat(rowData[i]) = items[i]

\* C11: the merge is limited to the first container: the rows handleEvent
\* assigns are the items of the result, each with the same containers, of
\* which at most the usage of the first differs; the containers after the
\* first are the item's own, whatever the metrics entry holds for them.
C11_FirstContainerOnly ==
    LET items == resultItems(lastEv)
    IN  (lastEv.name = app_command_result /\ ~isLoading) =>
            /\ Len(rowData) = Len(items)
            /\ \A i \in DOMAIN items :
                  /\ rowData[i].name = items[i].name
                  /\ rowData[i].hasSpec = items[i].hasSpec
                  /\ Len(rowData[i].containers) = Len(items[i].containers)
                  /\ \A j \in DOMAIN items[i].containers :
                        /\ rowData[i].containers[j].hasResources =
                              items[i].containers[j].hasResources
                        /\ j >= 2 => rowData[i].containers[j] = items[i].containers[j]

\* an item with two or more containers was merged with a metrics entry that
\* has a usage for its second container too: the first container got the
\* entry's first usage, the second container has none
C11_Witness ==
    LET items == lastEv.payload.data.resource.items
        ms == lastEv.payload.data.metrics.items
    IN  /\ isMergeResult(lastEv) /\ keyedByName(ms) /\ ~threw /\ ~isLoading
        /\ \E i \in DOMAIN items :
              /\ Len(items[i].containers) >= 2
              /\ \E j \in matching(items[i], ms) :
                    /\ Len(ms[j].containers) >= 2
                    /\ ms[j].containers[2].usage # 0
                    /\ rowData[i].containers[1].usage = ms[j].containers[1].usage
              /\ rowData[i].containers[2].usage = 0

(***************************************************************************)
(* Further properties of the component (checked under Spec).               *)
(***************************************************************************)
\* C12: an escape_hit signal the subscribed view receives only hides the
\* sidebar: after it isSideBarHidden is true; isLoading, rowData, the grid
\* rows and selectedapp are unchanged; no timer is set or run, and no
\* command is submitted.
C12_EscapeOnlyHides ==
    [][(subscription /\ EscapeHit) =>
          /\ isSideBarHidden'
          /\ UNCHANGED <<isLoading, rowData, rowDataObs, selectedapp>>
          /\ UNCHANGED <<timers, batches, submitted, inflight>>]_vars

\* an escape_hit closed the sidebar a row click had opened: the selection
\* and the rows are still there, and a timer is still pending
C12_Witness ==
    /\ subscription
    /\ closedByEscape
    /\ isSideBarHidden
    /\ selectedapp.set
    /\ ~isLoading
    /\ rowData # << >>
    /\ timers # {}

\* C13: whenever the view submits a command (a timer of initialize() runs)
\* it is registered as a listener of app_command_result.
C13_SubmitsWhileRegistered ==
    [][\A t \in timers : t \notin timers' => registered]_vars

(***************************************************************************)
(* Properties of a sequence of handleEvent calls (checked under SpecS,     *)
(* where every step that changes the state is a call of handleEvent and    *)
(* lastEv' is the event of that call).                                     *)
(***************************************************************************)
\* the rows are the items of the list, one row per item in order (the
\* usage of a first container aside, see C11)
rowsOf(rows, items) ==
    /\ Len(rows) = Len(items)
    /\ \A i \in DOMAIN items :
          /\ rows[i].name = items[i].name
          /\ rows[i].hasSpec = items[i].hasSpec
          /\ Len(rows[i].containers) = Len(items[i].containers)

\* C14: last result wins: a result envelope that yields an items list
\* makes rowData the items of that envelope, whatever its command field
\* is, and every other envelope leaves rowData unchanged; so rowData is
\* always the items of the most recent envelope that yielded a list.
C14_LastResultWins ==
    [][IF yieldsItems(lastEv')
       THEN rowsOf(rowData', resultItems(lastEv'))
       ELSE rowData' = rowData]_vars

\* C15: handleEvent ignores an event whose name is not app_command_result,
\* whatever its payload: the call returns without raising, leaves rowData,
\* isLoading, isSideBarHidden, selectedapp and the grid rows unchanged, and
\* sets no timer and submits no command.
C15_OtherNamesIgnored ==
    [][lastEv'.name # app_command_result =>
          /\ ~threw'
          /\ UNCHANGED <<isLoading, isSideBarHidden, rowData, rowDataObs, selectedapp>>
          /\ UNCHANGED <<timers, batches, submitted, inflight>>]_vars

\* the view shows the items of a result, and the event it handled last has
\* another name, the command of this view and a well-formed payload with a
\* different items list
C15_Witness ==
    /\ lastEv.name = other_channel
    /\ lastEv.payload.command = 1
    /\ lastEv.payload.data = DataItems(<<ItemB>>)
    /\ ~threw
    /\ ~isLoading
    /\ rowsOf(rowData, <<ItemA>>)
=============================================================================
